---------------------------- MODULE Spec2Model ----------------------------
(* A model of weather.py: the DailyWeather record, the HistoricalWeather   *)
(* store and its queries, the Country collection, and load_data.           *)
(*                                                                         *)
(* Numbers: Python floats are modelled by integers, and a quotient by the  *)
(* pair of its numerator and denominator (compared by cross               *)
(* multiplication), so float rounding and NaN are outside the model.       *)
(* Dates: a date is the record [year, month, day]; the stores of the model *)
(* hold dates of the years FirstYear and FirstYear + 1 only, far below      *)
(* date.max, so d + timedelta(days=1) never overflows here.                *)
EXTENDS Integers, Sequences, FiniteSets, TLC

VARIABLES
    hw,           \* the HistoricalWeather under test
    call,         \* the last call made, with its arguments
    ret,          \* what that call returned or raised
    first_added,  \* history: per date, the record of the first add_weather
    first_history,\* history: per name, the first HistoricalWeather added
    file,         \* the rows of the file handed to load_data
    country       \* the Country under test

vars == <<hw, call, ret, first_added, first_history, file, country>>

----------------------------------------------------------------------------
(* Bounds of the model.                                                    *)

FirstYear == 2019

MaxRecords == 3

MaxLines == 3

MaxLocations == 2

MaxAdds == 2

----------------------------------------------------------------------------
(* Python values.                                                          *)

None == [tag |-> "None"]

Some(x) == [tag |-> "Some", v |-> x]

Returned(x) == [exc |-> "", val |-> x]

Raised(e) == [exc |-> e, val |-> None]

(* a / b for b # 0, kept exact. *)
Quot(a, b) == [num |-> a, den |-> b]

QuotEq(p, q) == p.num * q.den = q.num * p.den

(* p >= q on quotients, whatever the signs of the denominators. *)
QuotGE(p, q) ==
    LET sp == IF p.den < 0 THEN -1 ELSE 1
        sq == IF q.den < 0 THEN -1 ELSE 1
    IN  (sp * p.num) * (sq * q.den) >= (sq * q.num) * (sp * p.den)

----------------------------------------------------------------------------
(* datetime.date: the calendar.                                            *)

IsLeap(y) == (y % 4 = 0) /\ ((y % 100 # 0) \/ (y % 400 = 0))

DaysInMonth(y, m) ==
    IF m = 2 THEN (IF IsLeap(y) THEN 29 ELSE 28)
    ELSE IF m \in {4, 6, 9, 11} THEN 30 ELSE 31

(* date(y, m, d) raises ValueError unless this holds. *)
ValidDate(y, m, d) ==
    /\ y \in 1..9999
    /\ m \in 1..12
    /\ d \in 1..DaysInMonth(y, m)

Date(y, m, d) == [year |-> y, month |-> m, day |-> d]

(* d + timedelta(days=1) *)
NextDay(d) ==
    IF d.day < DaysInMonth(d.year, d.month)
    THEN Date(d.year, d.month, d.day + 1)
    ELSE IF d.month < 12
         THEN Date(d.year, d.month + 1, 1)
         ELSE Date(d.year + 1, 1, 1)

(* date(2000, month, 20).strftime('%b') *)
MonthNames ==
    <<"Jan", "Feb", "Mar", "Apr", "May", "Jun",
      "Jul", "Aug", "Sep", "Oct", "Nov", "Dec">>

MonthAbbr(month) == MonthNames[month]

----------------------------------------------------------------------------
(* class DailyWeather                                                      *)

DailyWeather(temperature_statistics, precipitation_statistics) ==
    [avg_temp      |-> temperature_statistics[1],
     low_temp      |-> temperature_statistics[2],
     high_temp     |-> temperature_statistics[3],
     precipitation |-> precipitation_statistics[1],
     rainfall      |-> precipitation_statistics[2],
     snowfall      |-> precipitation_statistics[3]]


----------------------------------------------------------------------------
(* class HistoricalWeather.  _records is a dict: here the sequence of its  *)
(* (key, value) entries [d, w] in insertion order, which is the order a    *)
(* Python dict iterates in; no two entries share a date.                   *)

HistoricalWeather(name, coordinates) ==
    [name |-> name, coordinates |-> coordinates, records |-> <<>>]

(* key in self._records *)
HasKey(records, d) == \E i \in 1..Len(records) : records[i].d = d

(* self._records[d] *)
Lookup(records, d) ==
    records[CHOOSE i \in 1..Len(records) : records[i].d = d].w

(* Variant: a later add_weather replaces the record of its date. *)
add_weather_overwrite(records, d, w) ==
    IF HasKey(records, d)
    THEN [i \in 1..Len(records) |->
             IF records[i].d = d THEN [d |-> d, w |-> w] ELSE records[i]]
    ELSE Append(records, [d |-> d, w |-> w])

(* The new _records after add_weather(d, w); the call returns None. *)
(* Variant: a new date starts the mapping afresh, self._records = {date:  *)
(* weather}.                                                               *)
add_weather_afresh(records, d, w) ==
    IF HasKey(records, d) THEN records ELSE <<[d |-> d, w |-> w]>>

add_weather(records, d, w) ==
    IF HasKey(records, d)
    THEN records
    ELSE Append(records, [d |-> d, w |-> w])

(* Variant: the record is read by subscript, self._records[date]. *)
retrieve_weather_subscript(records, d) ==
    IF HasKey(records, d) THEN Returned(Some(Lookup(records, d)))
    ELSE Raised("KeyError")

retrieve_weather(records, d) ==
    IF HasKey(records, d)
    THEN Returned(Some(Lookup(records, d)))
    ELSE Returned(None)

(* The builtin max of a non-empty list, scanned left to right. *)
RECURSIVE PyMaxFrom(_, _, _)
PyMaxFrom(list, i, best) ==
    IF i > Len(list) THEN best
    ELSE PyMaxFrom(list, i + 1, IF list[i] > best THEN list[i] ELSE best)

PyMax(list) == PyMaxFrom(list, 2, list[1])

(* The builtin sum of a list. *)
RECURSIVE PySum(_)
PySum(list) ==
    IF list = <<>> THEN 0 ELSE list[1] + PySum(Tail(list))

(* list.index(x): the first position of x. *)
PyIndex(list, x) ==
    CHOOSE i \in 1..Len(list) :
        list[i] = x /\ \A j \in 1..(i - 1) : list[j] # x

(* Variant: every day of month m counts. *)
record_high_any_day(records, m, d) ==
    LET matching  == SelectSeq(records, LAMBDA e : e.d.month = m)
        temp_list == [i \in 1..Len(matching) |-> matching[i].w.high_temp]
    IN  IF temp_list = <<>> THEN Raised("ValueError")
        ELSE Returned(PyMax(temp_list))

record_high(records, m, d) ==
    LET matching  == SelectSeq(records,
                               LAMBDA e : e.d.month = m /\ e.d.day = d)
        temp_list == [i \in 1..Len(matching) |-> matching[i].w.high_temp]
    IN  IF temp_list = <<>> THEN Raised("ValueError")
        ELSE Returned(PyMax(temp_list))

(* The body of the loop over month, from month to 12. *)
RECURSIVE MonthlyLoop(_, _, _)
MonthlyLoop(records, month, dictionary) ==
    IF month > 12 THEN dictionary
    ELSE LET month_name   == MonthAbbr(month)
             inMonth      == SelectSeq(records,
                                       LAMBDA e : e.d.month = month)
             list_of_mins == [i \in 1..Len(inMonth) |->
                                 inMonth[i].w.low_temp]
             entry        == IF Len(list_of_mins) > 0
                             THEN Some(Quot(PySum(list_of_mins),
                                            Len(list_of_mins)))
                             ELSE None
         IN  MonthlyLoop(records, month + 1,
                         (month_name :> entry) @@ dictionary)

(* Variant: a month without records gets no key. *)
monthly_average_skip_empty(records) ==
    LET full == MonthlyLoop(records, 1, <<>>)
    IN  Returned([k \in {x \in DOMAIN full : full[x] # None} |-> full[k]])

monthly_average(records) == Returned(MonthlyLoop(records, 1, <<>>))

(* Variant: trace precipitation does not count. *)
Precipitating_no_trace(w) == w.precipitation > 0

Precipitating(w) == w.precipitation > 0 \/ w.precipitation = -1

(* The while loop: count from dummy_key on. *)
RECURSIVE RunFrom(_, _)
RunFrom(records, dummy_key) ==
    IF HasKey(records, dummy_key)
       /\ Precipitating(Lookup(records, dummy_key))
    THEN 1 + RunFrom(records, NextDay(dummy_key))
    ELSE 0

contiguous_precipitation(records) ==
    LET start_date_list       == [i \in 1..Len(records) |-> records[i].d]
        consecutive_days_list ==
            [i \in 1..Len(records) |-> RunFrom(records, records[i].d)]
    IN  IF consecutive_days_list = <<>> THEN Raised("ValueError")
        ELSE LET max_consecutive_days == PyMax(consecutive_days_list)
                 max_start_date ==
                     start_date_list[PyIndex(consecutive_days_list,
                                             max_consecutive_days)]
             IN  Returned(<<max_start_date, max_consecutive_days>>)

(* Variant: a record with either amount at trace is skipped as a whole. *)
RECURSIVE SnowRainTotals_joint(_, _, _, _)
SnowRainTotals_joint(records, i, total_snowfall, total_rainfall) ==
    IF i > Len(records)
    THEN [total_snowfall |-> total_snowfall,
          total_rainfall |-> total_rainfall]
    ELSE IF records[i].w.snowfall # -1 /\ records[i].w.rainfall # -1
         THEN SnowRainTotals_joint(
                  records, i + 1,
                  total_snowfall + records[i].w.snowfall,
                  total_rainfall + records[i].w.rainfall)
         ELSE SnowRainTotals_joint(records, i + 1,
                                   total_snowfall, total_rainfall)

(* The loop over the keys, from entry i on. *)
RECURSIVE SnowRainTotals(_, _, _, _)
SnowRainTotals(records, i, total_snowfall, total_rainfall) ==
    IF i > Len(records)
    THEN [total_snowfall |-> total_snowfall,
          total_rainfall |-> total_rainfall]
    ELSE SnowRainTotals(
             records, i + 1,
             IF records[i].w.snowfall # -1
             THEN total_snowfall + records[i].w.snowfall
             ELSE total_snowfall,
             IF records[i].w.rainfall # -1
             THEN total_rainfall + records[i].w.rainfall
             ELSE total_rainfall)

(* Variant: without snowfall and rainfall the percentage is 0. *)
percentage_snowfall_or_zero(records) ==
    LET t == SnowRainTotals(records, 1, 0, 0)
    IN  IF t.total_snowfall + t.total_rainfall = 0
        THEN Returned(Quot(0, 1))
        ELSE Returned(Quot(t.total_snowfall,
                           t.total_snowfall + t.total_rainfall))

percentage_snowfall(records) ==
    LET t == SnowRainTotals(records, 1, 0, 0)
    IN  IF t.total_snowfall + t.total_rainfall = 0
        THEN Raised("ZeroDivisionError")
        ELSE Returned(Quot(t.total_snowfall,
                           t.total_snowfall + t.total_rainfall))

----------------------------------------------------------------------------
(* class Country.  _histories is a dict: here the sequence of its values   *)
(* in insertion order, each HistoricalWeather keyed by its name at the time *)
(* it was added.                                                            *)

Country(n) == [name |-> n, histories |-> <<>>]

(* name in self._histories *)
HasHistory(histories, name) ==
    \E i \in 1..Len(histories) : histories[i].key = name

(* Variant: a HistoricalWeather added under a name already present takes  *)
(* the place of the one stored.                                             *)
add_history_overwrite(histories, h) ==
    IF ~HasHistory(histories, h.name)
    THEN Append(histories, [key |-> h.name, value |-> h])
    ELSE [i \in 1..Len(histories) |->
             IF histories[i].key = h.name
             THEN [key |-> h.name, value |-> h] ELSE histories[i]]

(* Variant: the entry is keyed by the name of the Country. *)
add_history_country_key(histories, h) ==
    IF ~HasHistory(histories, h.name)
    THEN Append(histories, [key |-> "Canada", value |-> h])
    ELSE histories

add_history(histories, h) ==
    IF ~HasHistory(histories, h.name)
    THEN Append(histories, [key |-> h.name, value |-> h])
    ELSE histories

retrieve_history(histories, name) ==
    IF HasHistory(histories, name)
    THEN Returned(Some(histories[CHOOSE i \in 1..Len(histories) :
                                     histories[i].key = name].value))
    ELSE Returned(None)

(* The loop over the locations, from entry i on; an exception of           *)
(* percentage_snowfall leaves snowiest_location.                            *)
RECURSIVE SnowiestLoop(_, _, _, _)
SnowiestLoop(histories, i, highest_snowfall_location, highest_snowfall_percentage) ==
    IF i > Len(histories)
    THEN Returned(<<highest_snowfall_location, highest_snowfall_percentage>>)
    ELSE LET p == percentage_snowfall(histories[i].value.records)
         IN  IF p.exc # "" THEN Raised(p.exc)
             ELSE IF QuotGE(p.val, highest_snowfall_percentage)
             THEN SnowiestLoop(histories, i + 1, histories[i].key, p.val)
             ELSE SnowiestLoop(histories, i + 1, highest_snowfall_location,
                               highest_snowfall_percentage)

snowiest_location(histories) ==
    IF Len(histories) = 0 THEN Returned(<<None, None>>)
    ELSE SnowiestLoop(histories, 1, "", Quot(0, 1))

----------------------------------------------------------------------------
(* load_data.  A row is the list line.strip('\n').split(',') of one line:   *)
(* a sequence of strings, field c of the source at position c + 1 here.    *)
(* Every line of the file becomes a row (the test on the line is always     *)
(* true), an empty line the row <<"">>.                                     *)

LONG == 0
LAT == 1
STN_NAME == 2
YEAR == 5
MONTH == 6
DAY == 7
MAX_TEMP == 9
MIN_TEMP == 11
MEAN_TEMP == 13
TOTAL_RAIN == 19
TOTAL_RAIN_FLAG == 20
TOTAL_SNOW == 21
TOTAL_SNOW_FLAG == 22
TOTAL_PRECIP == 23
TOTAL_PRECIP_FLAG == 24
SPD_MAX_GUST_FLAG == 30

(* The decimal integers that occur in the rows of the model. *)
IntLiterals ==
    {<<"-79", -79>>, <<"-75", -75>>, <<"43", 43>>, <<"45", 45>>,
     <<"-3", -3>>, <<"0", 0>>, <<"1", 1>>, <<"2", 2>>, <<"3", 3>>,
     <<"6", 6>>, <<"13", 13>>, <<"28", 28>>, <<"29", 29>>,
     <<"2019", 2019>>, <<"2020", 2020>>}

(* int(s): a decimal integer, else ValueError. *)
PyInt(s) ==
    IF \E p \in IntLiterals : p[1] = s
    THEN Returned((CHOOSE p \in IntLiterals : p[1] = s)[2])
    ELSE Raised("ValueError")

(* float(s): int's strings and those with a fraction part; "2.0" is the    *)
(* one of the model.  Else ValueError.                                      *)
PyFloat(s) ==
    IF PyInt(s).exc = "" THEN PyInt(s)
    ELSE IF s = "2.0" THEN Returned(2)
    ELSE Raised("ValueError")

(* file_as_list[row_num][col], which raises IndexError past the end. *)
HasField(row, col) == col + 1 <= Len(row)

Field(row, col) == row[col + 1]

(* One assignment of the try block: the converted value, or the exception. *)
ConvertFloat(row, col) ==
    IF ~HasField(row, col) THEN Raised("IndexError")
    ELSE PyFloat(Field(row, col))

(* Variant: an integer field is read as any number. *)
ConvertInt_via_float(row, col) ==
    IF ~HasField(row, col) THEN Raised("IndexError")
    ELSE PyFloat(Field(row, col))

ConvertInt(row, col) ==
    IF ~HasField(row, col) THEN Raised("IndexError")
    ELSE PyInt(Field(row, col))

(* Variant: the amount is parsed before its flag is looked at. *)
ConvertUnion_parse_first(row, col, flag) ==
    IF ConvertFloat(row, col).exc # "" THEN ConvertFloat(row, col)
    ELSE IF ~HasField(row, flag) THEN Raised("IndexError")
    ELSE IF Field(row, flag) = "T" THEN Returned(-1)
    ELSE ConvertFloat(row, col)

(* Variant: a trace amount is recorded as 0. *)
ConvertUnion_trace_as_zero(row, col, flag) ==
    IF ~HasField(row, flag) THEN Raised("IndexError")
    ELSE IF Field(row, flag) = "T" THEN Returned(0)
    ELSE ConvertFloat(row, col)

ConvertUnion(row, col, flag) ==
    IF ~HasField(row, flag) THEN Raised("IndexError")
    ELSE IF Field(row, flag) = "T" THEN Returned(-1)
    ELSE ConvertFloat(row, col)

(* The assignments of the try block, in order. *)
Conversions ==
    <<[kind |-> "float", col |-> LONG],
      [kind |-> "float", col |-> LAT],
      [kind |-> "float", col |-> MEAN_TEMP],
      [kind |-> "float", col |-> MAX_TEMP],
      [kind |-> "float", col |-> MIN_TEMP],
      [kind |-> "int", col |-> YEAR],
      [kind |-> "int", col |-> MONTH],
      [kind |-> "int", col |-> DAY],
      [kind |-> "union", col |-> TOTAL_PRECIP, flag |-> TOTAL_PRECIP_FLAG],
      [kind |-> "union", col |-> TOTAL_SNOW, flag |-> TOTAL_SNOW_FLAG],
      [kind |-> "union", col |-> TOTAL_RAIN, flag |-> TOTAL_RAIN_FLAG]>>

Convert(row, c) ==
    IF c.kind = "float" THEN ConvertFloat(row, c.col)
    ELSE IF c.kind = "int" THEN ConvertInt(row, c.col)
    ELSE ConvertUnion(row, c.col, c.flag)

(* The try block on one row from assignment i on: the row with its fields  *)
(* converted in place, or the first exception.                              *)
RECURSIVE TryRow(_, _)
TryRow(row, i) ==
    IF i > Len(Conversions) THEN [exc |-> "", row |-> row]
    ELSE LET r == Convert(row, Conversions[i])
         IN  IF r.exc # "" THEN [exc |-> r.exc, row |-> row]
             ELSE TryRow([row EXCEPT ![Conversions[i].col + 1] = r.val],
                         i + 1)

(* del main_list[i] for the positions of list_of_rows, the highest first. *)
RECURSIVE delete_specified_rows(_, _)
delete_specified_rows(main_list, list_of_rows) ==
    IF list_of_rows = {} THEN main_list
    ELSE LET i == CHOOSE k \in list_of_rows :
                      \A j \in list_of_rows : j <= k
         IN  delete_specified_rows(
                 SubSeq(main_list, 1, i - 1)
                     \o SubSeq(main_list, i + 1, Len(main_list)),
                 list_of_rows \ {i})

(* The loop that adds the kept rows, from row i on; date(...) raises       *)
(* ValueError on a year, month and day that are no calendar date.           *)
RECURSIVE AddRows(_, _, _)
AddRows(weather_record, rows, i) ==
    IF i > Len(rows) THEN Returned(Some(weather_record))
    ELSE LET row == rows[i]
             weather_on_day ==
                 DailyWeather(<<Field(row, MEAN_TEMP), Field(row, MIN_TEMP),
                                Field(row, MAX_TEMP)>>,
                              <<Field(row, TOTAL_PRECIP),
                                Field(row, TOTAL_RAIN),
                                Field(row, TOTAL_SNOW)>>)
         IN  IF ~ValidDate(Field(row, YEAR), Field(row, MONTH),
                           Field(row, DAY))
             THEN Raised("ValueError")
             ELSE AddRows(
                      [weather_record EXCEPT !.records =
                          add_weather(@, Date(Field(row, YEAR),
                                              Field(row, MONTH),
                                              Field(row, DAY)),
                                      weather_on_day)],
                      rows, i + 1)

(* Variant: the name and the coordinates are those of the last kept row. *)
load_data_last_row(file_as_list) ==
    LET tried == [n \in 1..Len(file_as_list) |-> TryRow(file_as_list[n], 1)]
        uncaught == {n \in 1..Len(file_as_list) :
                        tried[n].exc \notin {"", "ValueError"}}
        rows_to_be_deleted == {n \in 1..Len(file_as_list) :
                                  tried[n].exc = "ValueError"}
        kept == delete_specified_rows(
                    [n \in 1..Len(file_as_list) |-> tried[n].row],
                    rows_to_be_deleted)
    IN  IF uncaught # {}
        THEN Raised(tried[CHOOSE n \in uncaught :
                              \A k \in uncaught : n <= k].exc)
        ELSE IF Len(kept) = 0 THEN Returned(None)
        ELSE AddRows(HistoricalWeather(Field(kept[Len(kept)], STN_NAME),
                                       <<Field(kept[Len(kept)], LAT),
                                         Field(kept[Len(kept)], LONG)>>),
                     kept, 1)

(* Only ValueError is caught: any other exception of the try block leaves  *)
(* load_data.                                                               *)
load_data(file_as_list) ==
    LET tried == [n \in 1..Len(file_as_list) |-> TryRow(file_as_list[n], 1)]
        uncaught == {n \in 1..Len(file_as_list) :
                        tried[n].exc \notin {"", "ValueError"}}
        rows_to_be_deleted == {n \in 1..Len(file_as_list) :
                                  tried[n].exc = "ValueError"}
        kept == delete_specified_rows(
                    [n \in 1..Len(file_as_list) |-> tried[n].row],
                    rows_to_be_deleted)
    IN  IF uncaught # {}
        THEN Raised(tried[CHOOSE n \in uncaught :
                              \A k \in uncaught : n <= k].exc)
        ELSE IF Len(kept) = 0 THEN Returned(None)
        ELSE AddRows(HistoricalWeather(Field(kept[1], STN_NAME),
                                       <<Field(kept[1], LAT),
                                         Field(kept[1], LONG)>>),
                     kept, 1)

----------------------------------------------------------------------------
(* The inputs of the store's operations.                                   *)

(* The last days of February and the first of March, in a common year and  *)
(* in the leap year after it: runs of consecutive days across a month end,  *)
(* the same (month, day) in two years, and two calendar months.            *)
Years == {FirstYear, FirstYear + 1}

Dates ==
    {Date(y, md[1], md[2]) :
        <<y, md>> \in {yd \in Years \X {<<2, 28>>, <<2, 29>>, <<3, 1>>} :
                          ValidDate(yd[1], yd[2][1], yd[2][2])}}

(* DailyWeather((average, low, high), (precipitation, rainfall, snowfall)): *)
(* precipitation above 0, trace and 0; rainfall and snowfall each measured,  *)
(* trace and 0; three different lows and highs.                              *)
SleetDay  == DailyWeather(<<2, 1, 3>>, <<3, 2, -1>>)
FlurryDay == DailyWeather(<<-2, -5, 0>>, <<-1, -1, 1>>)
DryDay    == DailyWeather(<<3, 2, 6>>, <<0, 0, 0>>)

DailyWeathers == {SleetDay, FlurryDay, DryDay}

MonthDays == {<<d.month, d.day>> : d \in Dates}

(* The names of the locations of a Country. *)
LocationNames == {"YYZ", "YOW", "YUL"}

----------------------------------------------------------------------------
(* The operations on one HistoricalWeather, each a whole call.  call is    *)
(* the last call made and ret what it returned or raised.                  *)

InitStore ==
    /\ hw = HistoricalWeather("YYZ", <<43, -79>>)
    /\ call = [op |-> "__init__"]
    /\ ret = Returned(None)
    /\ first_added = [d \in Dates |-> None]
    /\ first_history = [n \in LocationNames |-> None]
    /\ file = <<>>
    /\ country = Country("Canada")

Do_add_weather(d, w) ==
    /\ Len(hw.records) < MaxRecords \/ HasKey(hw.records, d)
    /\ hw' = [hw EXCEPT !.records = add_weather(hw.records, d, w)]
    /\ call' = [op |-> "add_weather", d |-> d, w |-> w]
    /\ ret' = Returned(None)
    /\ first_added' = IF first_added[d] = None
                      THEN [first_added EXCEPT ![d] = Some(w)]
                      ELSE first_added
    /\ UNCHANGED <<first_history, file, country>>

Do_retrieve_weather(d) ==
    /\ call' = [op |-> "retrieve_weather", d |-> d]
    /\ ret' = retrieve_weather(hw.records, d)
    /\ UNCHANGED <<hw, first_added, first_history, file, country>>

Do_record_high(m, d) ==
    /\ call' = [op |-> "record_high", m |-> m, d |-> d]
    /\ ret' = record_high(hw.records, m, d)
    /\ UNCHANGED <<hw, first_added, first_history, file, country>>

Do_monthly_average ==
    /\ call' = [op |-> "monthly_average"]
    /\ ret' = monthly_average(hw.records)
    /\ UNCHANGED <<hw, first_added, first_history, file, country>>

Do_contiguous_precipitation ==
    /\ call' = [op |-> "contiguous_precipitation"]
    /\ ret' = contiguous_precipitation(hw.records)
    /\ UNCHANGED <<hw, first_added, first_history, file, country>>

(* Variant: the trace amounts are set to 0 in the records before summing. *)
Do_percentage_snowfall_in_place ==
    /\ call' = [op |-> "percentage_snowfall"]
    /\ ret' = percentage_snowfall(hw.records)
    /\ hw' = [hw EXCEPT !.records =
                 [i \in 1..Len(hw.records) |->
                     [hw.records[i] EXCEPT
                         !.w.rainfall = IF @ = -1 THEN 0 ELSE @,
                         !.w.snowfall = IF @ = -1 THEN 0 ELSE @]]]
    /\ UNCHANGED <<first_added, first_history, file, country>>

Do_percentage_snowfall ==
    /\ call' = [op |-> "percentage_snowfall"]
    /\ ret' = percentage_snowfall(hw.records)
    /\ UNCHANGED <<hw, first_added, first_history, file, country>>

NextStore ==
    \/ \E d \in Dates, w \in DailyWeathers : Do_add_weather(d, w)
    \/ \E d \in Dates : Do_retrieve_weather(d)
    \/ \E md \in MonthDays : Do_record_high(md[1], md[2])
    \/ Do_monthly_average
    \/ Do_contiguous_precipitation
    \/ Do_percentage_snowfall

Spec == InitStore /\ [][NextStore]_vars

----------------------------------------------------------------------------
(* The rows a file is made of.                                             *)

BlankRow == [c \in 1..(SPD_MAX_GUST_FLAG + 1) |-> ""]

(* A full row: lonlat = (longitude, latitude), ymd = (year, month, day),   *)
(* temps = (mean, min, max), and (value, flag) for each amount.             *)
DataRow(stn, lonlat, ymd, temps, rain, snow, precip) ==
    [BlankRow EXCEPT
        ![LONG + 1] = lonlat[1],          ![LAT + 1] = lonlat[2],
        ![STN_NAME + 1] = stn,
        ![YEAR + 1] = ymd[1],             ![MONTH + 1] = ymd[2],
        ![DAY + 1] = ymd[3],
        ![MEAN_TEMP + 1] = temps[1],      ![MIN_TEMP + 1] = temps[2],
        ![MAX_TEMP + 1] = temps[3],
        ![TOTAL_RAIN + 1] = rain[1],      ![TOTAL_RAIN_FLAG + 1] = rain[2],
        ![TOTAL_SNOW + 1] = snow[1],      ![TOTAL_SNOW_FLAG + 1] = snow[2],
        ![TOTAL_PRECIP + 1] = precip[1],
        ![TOTAL_PRECIP_FLAG + 1] = precip[2]]

HeaderRow == <<"Longitude (x)", "Latitude (y)", "Station Name">>

EmptyLine == <<"">>

SleetRow ==
    DataRow("YYZ", <<"-79", "43">>, <<"2020", "2", "28">>,
            <<"2", "1", "3">>, <<"2", "">>, <<"", "T">>, <<"3", "">>)

(* The date of SleetRow again, with other values and another station. *)
SameDateRow ==
    DataRow("YOW", <<"-75", "45">>, <<"2020", "2", "28">>,
            <<"3", "2", "6">>, <<"0", "">>, <<"0", "">>, <<"0", "">>)

TraceRow ==
    DataRow("YYZ", <<"-79", "43">>, <<"2020", "2", "29">>,
            <<"2.0", "0", "3">>, <<"", "T">>, <<"1", "">>, <<"1", "T">>)

(* No mean temperature that day. *)
NoTempRow ==
    DataRow("YYZ", <<"-79", "43">>, <<"2020", "3", "1">>,
            <<"", "1", "3">>, <<"0", "">>, <<"0", "">>, <<"0", "">>)

(* The day is written with a fraction part. *)
FloatDayRow ==
    DataRow("YYZ", <<"-79", "43">>, <<"2020", "3", "2.0">>,
            <<"2", "1", "3">>, <<"0", "">>, <<"0", "">>, <<"0", "">>)

(* A line cut off before the mean temperature. *)
ShortRow == SubSeq(SleetRow, 1, MEAN_TEMP)

Month13Row ==
    DataRow("YYZ", <<"-79", "43">>, <<"2020", "13", "1">>,
            <<"2", "1", "3">>, <<"0", "">>, <<"0", "">>, <<"0", "">>)

(* 29 February of a common year. *)
NoLeapDayRow ==
    DataRow("YYZ", <<"-79", "43">>, <<"2019", "2", "29">>,
            <<"2", "1", "3">>, <<"0", "">>, <<"0", "">>, <<"0", "">>)

(* The minimum above the mean above the maximum. *)
InvertedRow ==
    DataRow("YYZ", <<"-79", "43">>, <<"2020", "3", "1">>,
            <<"2", "6", "0">>, <<"0", "">>, <<"0", "">>, <<"0", "">>)

(* A negative rainfall, as archives write a missing value. *)
NegRainRow ==
    DataRow("YYZ", <<"-79", "43">>, <<"2019", "2", "28">>,
            <<"2", "1", "3">>, <<"-3", "">>, <<"1", "">>, <<"1", "">>)

(* No snowfall measured that day: the amount is empty, flagged missing. *)
NoSnowRow ==
    DataRow("YYZ", <<"-79", "43">>, <<"2019", "3", "1">>,
            <<"2", "1", "3">>, <<"0", "">>, <<"", "M">>, <<"0", "">>)

Rows ==
    {HeaderRow, EmptyLine, SleetRow, SameDateRow, TraceRow, NoTempRow,
     FloatDayRow, ShortRow, Month13Row, NoLeapDayRow, InvertedRow,
     NegRainRow, NoSnowRow}

----------------------------------------------------------------------------
(* What a row stands for, read off its fields.                             *)

(* The row passes the row filter: its try block ends without exception. *)
PassesFilter(row) == TryRow(row, 1).exc = ""

(* The amount of a row after trace conversion. *)
Amount(row, col, flag) ==
    IF Field(row, flag) = "T" THEN -1 ELSE PyFloat(Field(row, col)).val

(* The six values of a row that passes the filter. *)
SixValues(row) ==
    [avg_temp      |-> PyFloat(Field(row, MEAN_TEMP)).val,
     low_temp      |-> PyFloat(Field(row, MIN_TEMP)).val,
     high_temp     |-> PyFloat(Field(row, MAX_TEMP)).val,
     precipitation |-> Amount(row, TOTAL_PRECIP, TOTAL_PRECIP_FLAG),
     rainfall      |-> Amount(row, TOTAL_RAIN, TOTAL_RAIN_FLAG),
     snowfall      |-> Amount(row, TOTAL_SNOW, TOTAL_SNOW_FLAG)]

RowDate(row) ==
    Date(PyInt(Field(row, YEAR)).val, PyInt(Field(row, MONTH)).val,
         PyInt(Field(row, DAY)).val)

----------------------------------------------------------------------------
(* Writing a file row by row, and load_data on what is written so far.     *)

InitLoad ==
    /\ file = <<>>
    /\ call = [op |-> "open"]
    /\ ret = Returned(None)
    /\ hw = HistoricalWeather("", <<0, 0>>)
    /\ first_added = [d \in Dates |-> None]
    /\ first_history = [n \in LocationNames |-> None]
    /\ country = Country("Canada")

Do_write_row(row) ==
    /\ Len(file) < MaxLines
    /\ file' = Append(file, row)
    /\ call' = [op |-> "write"]
    /\ ret' = Returned(None)
    /\ UNCHANGED <<hw, first_added, first_history, country>>

Do_load_data ==
    /\ call' = [op |-> "load_data"]
    /\ ret' = load_data(file)
    /\ UNCHANGED <<file, hw, first_added, first_history, country>>

NextLoad ==
    \/ \E row \in Rows : Do_write_row(row)
    \/ Do_load_data

SpecLoad == InitLoad /\ [][NextLoad]_vars

----------------------------------------------------------------------------
(* The operations on one Country.  The locations added are stores as       *)
(* load_data builds them: the records of the rows above and of the days     *)
(* above, on consecutive dates.                                             *)

NegRainDay == SixValues(NegRainRow)

RECURSIVE StoreOf(_, _, _)
StoreOf(records, d, ws) ==
    IF ws = <<>> THEN records
    ELSE StoreOf(add_weather(records, d, Head(ws)), NextDay(d), Tail(ws))

LocationStores ==
    {StoreOf(<<>>, Date(FirstYear, 2, 28), ws) :
        ws \in {<<SleetDay>>, <<FlurryDay>>, <<SleetDay, FlurryDay>>,
                <<DryDay>>, <<NegRainDay>>}}

Locations ==
    {[HistoricalWeather(n, <<0, 0>>) EXCEPT !.records = r] :
        n \in LocationNames, r \in LocationStores}

InitCountry ==
    /\ country = Country("Canada")
    /\ call = [op |-> "__init__"]
    /\ ret = Returned(None)
    /\ hw = HistoricalWeather("", <<0, 0>>)
    /\ first_added = [d \in Dates |-> None]
    /\ first_history = [n \in LocationNames |-> None]
    /\ file = <<>>

Do_add_history(h) ==
    /\ Len(country.histories) < MaxLocations
           \/ HasHistory(country.histories, h.name)
    /\ country' = [country EXCEPT
                      !.histories = add_history(country.histories, h)]
    /\ call' = [op |-> "add_history", name |-> h.name, h |-> h]
    /\ ret' = Returned(None)
    /\ first_history' = IF first_history[h.name] = None
                        THEN [first_history EXCEPT ![h.name] = Some(h)]
                        ELSE first_history
    /\ UNCHANGED <<hw, first_added, file>>

Do_retrieve_history(name) ==
    /\ call' = [op |-> "retrieve_history", name |-> name]
    /\ ret' = retrieve_history(country.histories, name)
    /\ UNCHANGED <<country, hw, first_added, first_history, file>>

Do_snowiest_location ==
    /\ call' = [op |-> "snowiest_location"]
    /\ ret' = snowiest_location(country.histories)
    /\ UNCHANGED <<country, hw, first_added, first_history, file>>

NextCountry ==
    \/ \E h \in Locations : Do_add_history(h)
    \/ \E name \in LocationNames : Do_retrieve_history(name)
    \/ Do_snowiest_location

SpecCountry == InitCountry /\ [][NextCountry]_vars

----------------------------------------------------------------------------
(* Additions to and lookups in a HistoricalWeather and a Country side by   *)
(* side, with at most MaxAdds entries between them.                         *)

Lookup_add_weather(d, w) ==
    /\ Len(hw.records) + Len(country.histories) < MaxAdds
           \/ HasKey(hw.records, d)
    /\ Do_add_weather(d, w)

Lookup_add_history(h) ==
    /\ Len(hw.records) + Len(country.histories) < MaxAdds
           \/ HasHistory(country.histories, h.name)
    /\ Do_add_history(h)

NextLookup ==
    \/ \E d \in Dates, w \in DailyWeathers : Lookup_add_weather(d, w)
    \/ \E d \in Dates : Do_retrieve_weather(d)
    \/ \E h \in Locations : Lookup_add_history(h)
    \/ \E name \in LocationNames : Do_retrieve_history(name)

SpecLookup == InitStore /\ [][NextLookup]_vars

----------------------------------------------------------------------------
(* The queries of a HistoricalWeather and of a Country, between additions  *)
(* to both, with at most MaxAdds entries between them.                      *)

NextQueries ==
    \/ \E d \in Dates, w \in DailyWeathers : Lookup_add_weather(d, w)
    \/ \E h \in Locations : Lookup_add_history(h)
    \/ \E d \in Dates : Do_retrieve_weather(d)
    \/ \E md \in MonthDays : Do_record_high(md[1], md[2])
    \/ Do_monthly_average
    \/ Do_contiguous_precipitation
    \/ Do_percentage_snowfall
    \/ \E name \in LocationNames : Do_retrieve_history(name)
    \/ Do_snowiest_location

SpecQueries == InitStore /\ [][NextQueries]_vars

----------------------------------------------------------------------------
(* Properties of the store.  They are stated from the calendar and the     *)
(* stored entries directly, not through the operators above.               *)

Entries == {hw.records[i] : i \in 1..Len(hw.records)}

(* The day number of a date in the proleptic Gregorian calendar. *)
DaysBeforeMonth(y, m) ==
    <<0, 31, 59, 90, 120, 151, 181, 212, 243, 273, 304, 334>>[m]
    + (IF m > 2 /\ (y % 4 = 0 /\ (y % 100 # 0 \/ y % 400 = 0)) THEN 1 ELSE 0)

Ordinal(d) ==
    LET p == d.year - 1
    IN  365 * p + (p \div 4) - (p \div 100) + (p \div 400)
        + DaysBeforeMonth(d.year, d.month) + d.day

(* The sum of vals[i] over the positions i in I. *)
RECURSIVE SumAt(_, _)
SumAt(vals, I) ==
    IF I = {} THEN 0
    ELSE LET i == CHOOSE j \in I : TRUE
         IN  vals[i] + SumAt(vals, I \ {i})

(* C1: retrieve_weather(d) returns the record passed by the first          *)
(* add_weather call made for d (None if there was none); an add_weather at *)
(* a date already present leaves the whole store unchanged, and no          *)
(* add_weather raises.                                                      *)
C1_FirstAddWins ==
    /\ [](/\ \A d \in Dates :
               retrieve_weather(hw.records, d) = Returned(first_added[d])
          /\ (call.op = "add_weather" => ret = Returned(None)))
    /\ [][\A e \in Entries :
              (call'.op = "add_weather" /\ call'.d = e.d) => hw' = hw]_vars

(* C1 witness: the last call was an add_weather at a date that already had *)
(* a different record, and the first record is still the one stored.       *)
C1_Witness ==
    /\ call.op = "add_weather"
    /\ first_added[call.d] # Some(call.w)
    /\ \E e \in Entries : e.d = call.d /\ Some(e.w) = first_added[call.d]

(* The n days from start on are all recorded and precipitating. *)
WetRun(start, n) ==
    \A k \in 0..(n - 1) :
        \E e \in Entries :
            /\ Ordinal(e.d) = Ordinal(start) + k
            /\ (e.w.precipitation > 0 \/ e.w.precipitation = -1)

(* C2: on a non-empty store contiguous_precipitation returns (start,       *)
(* count) where the count consecutive dates from start on are all present   *)
(* and precipitating (above 0, or the trace value -1), and no recorded date *)
(* begins a longer such run; a missing date ends a run.                     *)
C2_LongestWetRun ==
    (call.op = "contiguous_precipitation" /\ hw.records # <<>>) =>
        /\ ret.exc = ""
        /\ ret.val[2] \in Nat
        /\ WetRun(ret.val[1], ret.val[2])
        /\ \A e \in Entries : ~WetRun(e.d, ret.val[2] + 1)

(* C2 witness: two precipitating days with the unrecorded 29 February      *)
(* between them, and the answer is a run of one day.                        *)
C2_Witness ==
    /\ call.op = "contiguous_precipitation"
    /\ ret.exc = ""
    /\ ret.val[2] = 1
    /\ \E e1, e2 \in Entries :
          /\ Ordinal(e2.d) = Ordinal(e1.d) + 2
          /\ e1.w.precipitation = -1
          /\ e2.w.precipitation > 0
          /\ \A e \in Entries : Ordinal(e.d) # Ordinal(e1.d) + 1

(* C7: when some record has month m and day d, record_high(m, d) is the    *)
(* maximum high_temp over exactly the records of that month and day, in any *)
(* year.                                                                    *)
C7_RecordHigh ==
    LET matching == {e \in Entries :
                        e.d.month = call.m /\ e.d.day = call.d}
    IN  (call.op = "record_high" /\ matching # {}) =>
            /\ ret.exc = ""
            /\ \E e \in matching : e.w.high_temp = ret.val
            /\ \A e \in matching : e.w.high_temp <= ret.val

(* C7 witness: the (month, day) is recorded in two years with different    *)
(* highs, and a record of another day has a higher high than the result.   *)
C7_Witness ==
    /\ call.op = "record_high"
    /\ ret.exc = ""
    /\ \E e1, e2, e3 \in Entries :
          /\ e1.d.month = call.m /\ e1.d.day = call.d
          /\ e2.d.month = call.m /\ e2.d.day = call.d
          /\ e1.d.year # e2.d.year
          /\ e1.w.high_temp < e2.w.high_temp
          /\ ~(e3.d.month = call.m /\ e3.d.day = call.d)
          /\ e3.w.high_temp > ret.val

TwelveNames ==
    <<"Jan", "Feb", "Mar", "Apr", "May", "Jun",
      "Jul", "Aug", "Sep", "Oct", "Nov", "Dec">>

(* C8: monthly_average returns a mapping whose keys are exactly Jan..Dec;  *)
(* a month with records maps to the sum of their low_temp over their        *)
(* number, a month with none maps to None; also on the empty store.         *)
C8_MonthlyAverage ==
    (call.op = "monthly_average") =>
        /\ ret.exc = ""
        /\ DOMAIN ret.val = {TwelveNames[m] : m \in 1..12}
        /\ \A m \in 1..12 :
              LET I    == {i \in 1..Len(hw.records) :
                              hw.records[i].d.month = m}
                  lows == [i \in 1..Len(hw.records) |->
                              hw.records[i].w.low_temp]
                  got  == ret.val[TwelveNames[m]]
              IN  IF I = {} THEN got = None
                  ELSE /\ got.tag = "Some"
                       /\ got.v.den # 0
                       /\ got.v.num * Cardinality(I)
                              = SumAt(lows, I) * got.v.den

(* C8 witness: a month with two records of different lows in two years, a  *)
(* month with one record, and the other months without data.               *)
C8_Witness ==
    /\ call.op = "monthly_average"
    /\ ret.exc = ""
    /\ ret.val["Jan"] = None
    /\ ret.val["Mar"] # None
    /\ \E e1, e2 \in Entries :
          /\ e1.d.month = 2 /\ e2.d.month = 2
          /\ e1.d.year # e2.d.year
          /\ e1.w.low_temp # e2.w.low_temp

(* C9: with a non-zero denominator percentage_snowfall returns S / (S + R), *)
(* S the sum of the snowfalls that are not -1 and R the sum of the          *)
(* rainfalls that are not -1, each exclusion on its own.                    *)
C9_PercentageSnowfall ==
    LET n     == Len(hw.records)
        snows == [i \in 1..n |-> hw.records[i].w.snowfall]
        rains == [i \in 1..n |-> hw.records[i].w.rainfall]
        S     == SumAt(snows, {i \in 1..n : snows[i] # -1})
        R     == SumAt(rains, {i \in 1..n : rains[i] # -1})
    IN  (call.op = "percentage_snowfall" /\ S + R # 0) =>
            /\ ret.exc = ""
            /\ ret.val.den # 0
            /\ ret.val.num * (S + R) = S * ret.val.den

(* C9 witness: one record with trace snowfall and measured rainfall, one   *)
(* with trace rainfall and measured snowfall, and both amounts count.      *)
C9_Witness ==
    /\ call.op = "percentage_snowfall"
    /\ ret.exc = ""
    /\ ret.val.num > 0
    /\ ret.val.den > ret.val.num
    /\ \E e1, e2 \in Entries :
          /\ e1.w.snowfall = -1 /\ e1.w.rainfall > 0
          /\ e2.w.rainfall = -1 /\ e2.w.snowfall > 0

----------------------------------------------------------------------------
(* Properties of load_data, on the state after a call of it.               *)

Loaded == call.op = "load_data"

(* load_data returned a HistoricalWeather. *)
LoadedStore == Loaded /\ ret.exc = "" /\ ret.val # None

(* The row lacks a field the try block reads. *)
TooShort(row) == Len(row) < TOTAL_PRECIP_FLAG + 1

(* The row's year, month and day are integers that make no calendar date. *)
NoCalendarDate(row) ==
    /\ ~TooShort(row)
    /\ PyInt(Field(row, YEAR)).exc = ""
    /\ PyInt(Field(row, MONTH)).exc = ""
    /\ PyInt(Field(row, DAY)).exc = ""
    /\ ~ValidDate(PyInt(Field(row, YEAR)).val, PyInt(Field(row, MONTH)).val,
                  PyInt(Field(row, DAY)).val)

(* C3: a row with fewer fields than the layout requires is discarded as a  *)
(* whole: load_data raises nothing and returns what it returns on the file  *)
(* without such rows.  Stated for files whose dates are all calendar dates. *)
C3_ShortRowDiscarded ==
    (/\ Loaded
     /\ \E n \in 1..Len(file) : TooShort(file[n])
     /\ \A n \in 1..Len(file) : ~NoCalendarDate(file[n])) =>
        /\ ret.exc = ""
        /\ ret = load_data(SelectSeq(file, LAMBDA row : ~TooShort(row)))

(* C4: a row whose year, month and day are integers but no calendar date   *)
(* is dropped: load_data raises nothing and returns what it returns on the  *)
(* file without such rows.  Stated for files without a short row.           *)
C4_BadDateDropped ==
    (/\ Loaded
     /\ \E n \in 1..Len(file) : NoCalendarDate(file[n])
     /\ \A n \in 1..Len(file) : ~TooShort(file[n])) =>
        /\ ret.exc = ""
        /\ ret = load_data(SelectSeq(file, LAMBDA row : ~NoCalendarDate(row)))

(* C5 as claimed: every row that passes the filter is retrievable at its   *)
(* date from the returned HistoricalWeather with its own six values.        *)
C5_EveryRowRetrievable ==
    LoadedStore =>
        \A n \in 1..Len(file) :
            PassesFilter(file[n]) =>
                retrieve_weather(ret.val.v.records, RowDate(file[n]))
                    = Returned(Some(SixValues(file[n])))

(* C5 as amended: every row that passes the filter and is the first such   *)
(* row of its date is retrievable at that date from the returned            *)
(* HistoricalWeather with its own six values, after trace conversion.       *)
C5_FirstRowRetrievable ==
    LoadedStore =>
        \A n \in 1..Len(file) :
            (/\ PassesFilter(file[n])
             /\ \A k \in 1..(n - 1) :
                   PassesFilter(file[k]) => RowDate(file[k]) # RowDate(file[n]))
                => retrieve_weather(ret.val.v.records, RowDate(file[n]))
                       = Returned(Some(SixValues(file[n])))

(* C5 witness: after a dropped row, two rows of one date with different    *)
(* values were loaded, the first of them with a trace amount.               *)
C5_Witness ==
    /\ LoadedStore
    /\ Len(ret.val.v.records) = 1
    /\ \E k, n \in 1..Len(file) :
          /\ k < n
          /\ PassesFilter(file[k]) /\ PassesFilter(file[n])
          /\ RowDate(file[k]) = RowDate(file[n])
          /\ SixValues(file[k]) # SixValues(file[n])
          /\ SixValues(file[k]).snowfall = -1
    /\ ~PassesFilter(file[1])

(* C6: every DailyWeather of a HistoricalWeather returned by load_data has *)
(* low_temp <= avg_temp <= high_temp and precipitation, rainfall and        *)
(* snowfall each >= -1.                                                     *)
C6_LoadedRecordsValid ==
    LoadedStore =>
        \A i \in 1..Len(ret.val.v.records) :
            LET w == ret.val.v.records[i].w
            IN  /\ w.low_temp <= w.avg_temp
                /\ w.avg_temp <= w.high_temp
                /\ w.precipitation >= -1
                /\ w.rainfall >= -1
                /\ w.snowfall >= -1

(* The amounts of a row with their flags. *)
AmountColumns ==
    {<<TOTAL_PRECIP, TOTAL_PRECIP_FLAG>>, <<TOTAL_RAIN, TOTAL_RAIN_FLAG>>,
     <<TOTAL_SNOW, TOTAL_SNOW_FLAG>>}

(* The row has every field, numbers for its coordinates and temperatures   *)
(* and integers for its year, month and day.                                *)
NumbersParse(row) ==
    /\ ~TooShort(row)
    /\ \A col \in {LONG, LAT, MEAN_TEMP, MIN_TEMP, MAX_TEMP} :
           PyFloat(Field(row, col)).exc = ""
    /\ \A col \in {YEAR, MONTH, DAY} : PyInt(Field(row, col)).exc = ""

(* The amount is flagged as trace, or is written as a number. *)
AmountParses(row, cf) ==
    Field(row, cf[2]) = "T" \/ PyFloat(Field(row, cf[1])).exc = ""

(* Some amount of the row is neither flagged as trace nor a number. *)
UnparsedAmount(row) ==
    NumbersParse(row) /\ \E cf \in AmountColumns : ~AmountParses(row, cf)

WellFormed(row) ==
    NumbersParse(row) /\ \A cf \in AmountColumns : AmountParses(row, cf)

(* C11: for precipitation, rainfall and snowfall each on its own, the      *)
(* value stored for a row is -1 when the amount's flag is "T", whatever is  *)
(* written as the amount, and otherwise the amount read as a number; a row  *)
(* with an amount that is neither is dropped: load_data returns what it     *)
(* returns on the file without such rows.                                   *)
C11_TraceConversion ==
    Loaded =>
        /\ ret = load_data(SelectSeq(file, LAMBDA row : ~UnparsedAmount(row)))
        /\ (ret.exc = "" /\ ret.val # None) =>
              \A n \in 1..Len(file) :
                  (/\ WellFormed(file[n])
                   /\ \A k \in 1..(n - 1) :
                         WellFormed(file[k]) =>
                             RowDate(file[k]) # RowDate(file[n]))
                      => LET r == retrieve_weather(ret.val.v.records,
                                                   RowDate(file[n]))
                             stored(w) == <<w.precipitation, w.rainfall,
                                            w.snowfall>>
                             written(cf) ==
                                 IF Field(file[n], cf[2]) = "T" THEN -1
                                 ELSE PyFloat(Field(file[n], cf[1])).val
                         IN  /\ r.exc = "" /\ r.val # None
                             /\ stored(r.val.v) =
                                    <<written(<<TOTAL_PRECIP,
                                                TOTAL_PRECIP_FLAG>>),
                                      written(<<TOTAL_RAIN, TOTAL_RAIN_FLAG>>),
                                      written(<<TOTAL_SNOW,
                                                TOTAL_SNOW_FLAG>>)>>

(* C11 witness: a loaded row has one amount flagged "T" with nothing       *)
(* written and another flagged "T" with a number written, both stored as    *)
(* -1 beside a measured amount, and a row with an unflagged empty amount    *)
(* left no record.                                                          *)
C11_Witness ==
    /\ LoadedStore
    /\ \E n \in 1..Len(file) :
          /\ WellFormed(file[n])
          /\ Field(file[n], TOTAL_RAIN_FLAG) = "T"
          /\ Field(file[n], TOTAL_RAIN) = ""
          /\ Field(file[n], TOTAL_PRECIP_FLAG) = "T"
          /\ Field(file[n], TOTAL_PRECIP) # ""
          /\ Field(file[n], TOTAL_SNOW_FLAG) # "T"
          /\ \E i \in 1..Len(ret.val.v.records) :
                LET e == ret.val.v.records[i]
                IN  /\ e.d = RowDate(file[n])
                    /\ e.w.rainfall = -1 /\ e.w.precipitation = -1
                    /\ e.w.snowfall > 0
    /\ \E n \in 1..Len(file) :
          /\ UnparsedAmount(file[n])
          /\ \A i \in 1..Len(ret.val.v.records) :
                ret.val.v.records[i].d # RowDate(file[n])

(* C12: the name of a HistoricalWeather returned by load_data is the       *)
(* station name, and its coordinates are (latitude, longitude), of the      *)
(* first row of the file that is well-formed; the rows before it, the       *)
(* header among them, and the well-formed rows after it do not matter.      *)
C12_FirstRowNames ==
    LoadedStore =>
        \E n \in 1..Len(file) :
            /\ WellFormed(file[n])
            /\ \A k \in 1..(n - 1) : ~WellFormed(file[k])
            /\ ret.val.v.name = Field(file[n], STN_NAME)
            /\ ret.val.v.coordinates =
                   <<PyFloat(Field(file[n], LAT)).val,
                     PyFloat(Field(file[n], LONG)).val>>

(* C12 witness: the header, then a well-formed row of one station, then a  *)
(* well-formed row of another station at other coordinates; the first       *)
(* station names the result.                                                *)
C12_Witness ==
    /\ LoadedStore
    /\ Len(file) = 3
    /\ ~WellFormed(file[1])
    /\ WellFormed(file[2]) /\ WellFormed(file[3])
    /\ Field(file[2], STN_NAME) # Field(file[3], STN_NAME)
    /\ Field(file[2], LAT) # Field(file[3], LAT)
    /\ Field(file[2], LONG) # Field(file[3], LONG)
    /\ Field(file[2], LAT) # Field(file[2], LONG)
    /\ ret.val.v.name = Field(file[2], STN_NAME)

(* C13: load_data returns None exactly when no row of the file is          *)
(* well-formed (an empty file, a header alone, malformed rows only), and    *)
(* returns a HistoricalWeather with at least one record whenever some row   *)
(* is well-formed.                                                          *)
C13_NoneIffNoRowPasses ==
    Loaded =>
        IF \E n \in 1..Len(file) : WellFormed(file[n])
        THEN /\ ret.exc = ""
             /\ ret.val # None
             /\ Len(ret.val.v.records) >= 1
        ELSE ret = Returned(None)

(* The row has its coordinates, temperatures, year, month and day, and    *)
(* one of the first five is not a number or one of the last three is not   *)
(* an integer.                                                              *)
BadNumber(row) ==
    /\ Len(row) > MEAN_TEMP
    /\ \/ \E col \in {LONG, LAT, MEAN_TEMP, MIN_TEMP, MAX_TEMP} :
              PyFloat(Field(row, col)).exc # ""
       \/ \E col \in {YEAR, MONTH, DAY} : PyInt(Field(row, col)).exc # ""

(* The row's year, month and day are integers. *)
DateParses(row) ==
    /\ Len(row) > DAY
    /\ \A col \in {YEAR, MONTH, DAY} : PyInt(Field(row, col)).exc = ""

(* C14: a row with a coordinate or temperature that is not a number, or a  *)
(* year, month or day that is not an integer, contributes no record:        *)
(* load_data returns what it returns on the file without such rows, so the  *)
(* well-formed rows beside it are ingested as they would be alone; a        *)
(* returned HistoricalWeather has nothing at such a row's date unless a     *)
(* well-formed row has that date; and a file with no other data row gives   *)
(* None.                                                                    *)
C14_BadNumberDropped ==
    Loaded =>
        /\ ret = load_data(SelectSeq(file, LAMBDA row : ~BadNumber(row)))
        /\ LoadedStore =>
              \A n \in 1..Len(file) :
                  (/\ BadNumber(file[n])
                   /\ DateParses(file[n])
                   /\ \A k \in 1..Len(file) :
                         WellFormed(file[k]) =>
                             RowDate(file[k]) # RowDate(file[n]))
                      => \A i \in 1..Len(ret.val.v.records) :
                             ret.val.v.records[i].d # RowDate(file[n])
        /\ (\A n \in 1..Len(file) :
                BadNumber(file[n]) \/ file[n] \in {HeaderRow, EmptyLine})
              => ret = Returned(None)

(* C14 witness: a row without a mean temperature stands between two        *)
(* well-formed rows of other dates; both are ingested and nothing is        *)
(* recorded at its date.                                                    *)
C14_Witness ==
    /\ LoadedStore
    /\ Len(file) = 3
    /\ WellFormed(file[1]) /\ WellFormed(file[3])
    /\ BadNumber(file[2]) /\ DateParses(file[2])
    /\ PyFloat(Field(file[2], MEAN_TEMP)).exc # ""
    /\ Len(ret.val.v.records) = 2
    /\ retrieve_weather(ret.val.v.records, RowDate(file[2])) = Returned(None)

----------------------------------------------------------------------------
(* Properties of the Country, on the state after a call.                   *)

(* C10: snowiest_location returns (None, None) on a Country without        *)
(* locations; otherwise, when percentage_snowfall is defined for every      *)
(* location, it returns (n, p) with n the name of a location, p that        *)
(* location's percentage_snowfall(), and no location's percentage above p.  *)
C10_SnowiestLocation ==
    LET hs == country.histories
        pct(i) == percentage_snowfall(hs[i].value.records)
    IN  (call.op = "snowiest_location") =>
            /\ (hs = <<>> => ret = Returned(<<None, None>>))
            /\ (hs # <<>> /\ \A i \in 1..Len(hs) : pct(i).exc = "") =>
                  /\ ret.exc = ""
                  /\ \E i \in 1..Len(hs) :
                        /\ ret.val[1] = hs[i].key
                        /\ QuotEq(ret.val[2], pct(i).val)
                  /\ \A i \in 1..Len(hs) : QuotGE(ret.val[2], pct(i).val)

(* C15: after any sequence of add_history calls, retrieve_history(n)       *)
(* returns the first HistoricalWeather that was added with name n; an       *)
(* add_history with a name already present leaves the Country unchanged and *)
(* raises nothing.                                                          *)
C15_FirstHistoryWins ==
    /\ [](/\ \A n \in LocationNames :
               retrieve_history(country.histories, n)
                   = Returned(first_history[n])
          /\ (call.op = "retrieve_history" =>
                  ret = Returned(first_history[call.name]))
          /\ (call.op = "add_history" => ret = Returned(None)))
    /\ [][(call'.op = "add_history"
              /\ HasHistory(country.histories, call'.name))
             => country' = country]_vars

(* C15 witness: the last call was an add_history under a name that already *)
(* had another HistoricalWeather, which is still the one retrieved.         *)
C15_Witness ==
    /\ call.op = "add_history"
    /\ first_history[call.name] # Some(call.h)
    /\ \E i \in 1..Len(country.histories) :
          /\ country.histories[i].key = call.name
          /\ country.histories[i].value # call.h
          /\ Some(country.histories[i].value) = first_history[call.name]

(* C16: retrieve_weather(d) returns None for every date d for which no     *)
(* add_weather was made on the store, and retrieve_history(n) returns None  *)
(* for every name n for which no add_history was made on the Country, the   *)
(* empty store and the empty Country included; neither raises.              *)
C16_AbsentIsNone ==
    /\ (call.op = "retrieve_weather" /\ first_added[call.d] = None)
          => ret = Returned(None)
    /\ (call.op = "retrieve_history" /\ first_history[call.name] = None)
          => ret = Returned(None)
    /\ \A d \in Dates :
          first_added[d] = None
              => retrieve_weather(hw.records, d) = Returned(None)
    /\ \A n \in LocationNames :
          first_history[n] = None
              => retrieve_history(country.histories, n) = Returned(None)

(* C16 witness: on a store and a Country that both hold something, a       *)
(* retrieve_history of a name never added returned None, and so does        *)
(* retrieve_weather of a date never added.                                  *)
C16_Witness ==
    /\ call.op = "retrieve_history"
    /\ first_history[call.name] = None
    /\ ret = Returned(None)
    /\ country.histories # <<>>
    /\ hw.records # <<>>
    /\ \E d \in Dates :
          /\ first_added[d] = None
          /\ retrieve_weather(hw.records, d) = Returned(None)

(* C17: in every state reached by add_history calls, each key of the       *)
(* Country's mapping is the name of the HistoricalWeather stored under it.  *)
C17_KeyIsName ==
    \A i \in 1..Len(country.histories) :
        country.histories[i].key = country.histories[i].value.name

(* C17 witness: a Country with two locations, after an add_history under a *)
(* name already present.                                                    *)
C17_Witness ==
    /\ Len(country.histories) = 2
    /\ country.histories[1].key # country.histories[2].key
    /\ call.op = "add_history"
    /\ first_history[call.name] # Some(call.h)
    /\ \A i \in 1..2 :
          country.histories[i].key = country.histories[i].value.name

(* C20: when several locations share the highest percentage_snowfall(),   *)
(* snowiest_location returns the one of them that was added last.           *)
C20_TieGoesToLast ==
    LET hs == country.histories
        pct(i) == percentage_snowfall(hs[i].value.records)
        highest == {i \in 1..Len(hs) :
                       \A j \in 1..Len(hs) : QuotGE(pct(i).val, pct(j).val)}
    IN  (/\ call.op = "snowiest_location"
         /\ \A i \in 1..Len(hs) : pct(i).exc = ""
         /\ Cardinality(highest) >= 2) =>
            /\ ret.exc = ""
            /\ \E i \in highest :
                  /\ \A j \in highest : j <= i
                  /\ ret.val[1] = hs[i].key

----------------------------------------------------------------------------
(* Properties of the store's operations outside their preconditions and    *)
(* across calls.                                                            *)

(* C18: a query called outside its precondition raises and returns no      *)
(* number: record_high(m, d) when no record has month m and day d,          *)
(* contiguous_precipitation on an empty store, and percentage_snowfall when *)
(* the snowfalls and rainfalls that are not -1 add up to 0.                 *)
C18_PreconditionRaises ==
    LET n     == Len(hw.records)
        snows == [i \in 1..n |-> hw.records[i].w.snowfall]
        rains == [i \in 1..n |-> hw.records[i].w.rainfall]
        total == SumAt(snows, {i \in 1..n : snows[i] # -1})
                 + SumAt(rains, {i \in 1..n : rains[i] # -1})
    IN  /\ (/\ call.op = "record_high"
             /\ \A e \in Entries :
                   ~(e.d.month = call.m /\ e.d.day = call.d))
              => ret.exc # ""
        /\ (call.op = "contiguous_precipitation" /\ n = 0) => ret.exc # ""
        /\ (call.op = "percentage_snowfall" /\ total = 0) => ret.exc # ""

(* C18 witness: percentage_snowfall raised on a store of two records        *)
(* without rain or snow, and record_high raises for a month and day the     *)
(* store does not have.                                                     *)
C18_Witness ==
    /\ call.op = "percentage_snowfall"
    /\ ret.exc = "ZeroDivisionError"
    /\ Len(hw.records) = 2
    /\ \A e \in Entries : e.w.rainfall = 0 /\ e.w.snowfall = 0
    /\ \E md \in MonthDays :
          /\ \A e \in Entries : <<e.d.month, e.d.day>> # md
          /\ record_high(hw.records, md[1], md[2]).exc = "ValueError"

(* C19: across the operations of a HistoricalWeather, every recorded date  *)
(* stays recorded with the record it has, and one operation adds at most    *)
(* one date.                                                                *)
C19_RecordsOnlyGrow ==
    [][\/ hw'.records = hw.records
       \/ /\ \A e \in Entries : e \in Entries'
          /\ Cardinality({e.d : e \in Entries'}
                             \ {e.d : e \in Entries}) <= 1
          /\ Cardinality({e.d : e \in Entries'}) = Len(hw'.records)]_vars

(* C19 witness: the last call was an add_weather that put a second or      *)
(* third date into the store, behind the records that were there.           *)
C19_Witness ==
    /\ call.op = "add_weather"
    /\ Len(hw.records) >= 2
    /\ hw.records[Len(hw.records)] = [d |-> call.d, w |-> call.w]
    /\ \A i \in 1..(Len(hw.records) - 1) :
          /\ hw.records[i].d # call.d
          /\ first_added[hw.records[i].d] = Some(hw.records[i].w)

----------------------------------------------------------------------------
(* The frame of the queries.                                               *)

QueryOps ==
    {"retrieve_weather", "record_high", "monthly_average",
     "contiguous_precipitation", "percentage_snowfall",
     "retrieve_history", "snowiest_location"}

(* C21: a query leaves the HistoricalWeather (name, coordinates, records)  *)
(* and the Country (its mapping and every HistoricalWeather in it) as they  *)
(* were, whether it returns or raises.                                      *)
C21_QueriesReadOnly ==
    [][call'.op \in QueryOps => (hw' = hw /\ country' = country)]_vars

(* C21 witness: snowiest_location raised on a Country that holds a         *)
(* location, beside a store that holds a record; both hold exactly what     *)
(* the additions put there.                                                 *)
C21_Witness ==
    /\ call.op = "snowiest_location"
    /\ ret.exc # ""
    /\ country.histories # <<>>
    /\ hw.records # <<>>
    /\ \A e \in Entries : first_added[e.d] = Some(e.w)
    /\ \A i \in 1..Len(country.histories) :
          first_history[country.histories[i].key]
              = Some(country.histories[i].value)

============================================================================
